---------------------------- MODULE Spec2Model ----------------------------
(***************************************************************************)
(* Thermal inspection backend: the batch ingestion pipeline                *)
(* (backend/app/api/upload.py) and the model integrity gate                *)
(* (backend/app/services/model_loader.py).                                 *)
(*                                                                         *)
(* Spec        the ingestion pipeline: concurrent upload requests, batch   *)
(*             deletion; the loader's variables stay at their initial      *)
(*             values.                                                     *)
(* SpecLoaderThreads  the gate called by two threads of one process at     *)
(*             once, each call taken statement group by statement group.   *)
(* SpecIngestOnTable  one upload request served on a table that earlier    *)
(*             uploads and the analysis dispatcher have left.              *)
(* SpecTracker the batch state tracker: get_batch_status, get_batch_files  *)
(*             and delete_batch called on the table that earlier uploads   *)
(*             and the analysis dispatcher have left.                      *)
(* SpecLoader  the model integrity gate: verify / load / status /          *)
(*             initialize_all_models called one at a time by one process,  *)
(*             the model file changing between calls, process restarts;    *)
(*             the pipeline's variables stay at their initial values.      *)
(***************************************************************************)
EXTENDS Integers, Sequences, FiniteSets, TLC

(***************************************************************************)
(* Bounds of the model                                                     *)
(***************************************************************************)
\* files the modelled upload requests carry together
MaxFiles == 3
\* distinct file contents (hence distinct content hashes)
NumContents == 2
\* distinct byte contents the model file on disk can have
NumModelBytes == 2
\* process restarts of the model loader
MaxRestarts == 1
\* rows of thermal_scans when the batch state tracker is called
MaxScans == 3
\* substations registered in the substations table, at most
NumSubstations == 2

(***************************************************************************)
(* Program constants                                                       *)
(***************************************************************************)
\* upload.py:66  if len(files) > 5000
MAX_FILES_PER_BATCH == 5000

\* Python's None is the empty tuple, a present value x is <<x>>
None == <<>>
Some(x) == <<x>>

\* Two upload requests, served concurrently or one after the other, each by
\* its own user
Requests == {"r1", "r2"}
current_user == [r \in Requests |-> IF r = "r1" THEN "u1" ELSE "u2"]
Contents == 1..NumContents

\* The callers of the batch state tracker: a user id and the user's
\* can_view_all_data flag
Users == {"u1", "u2"}
Requesters == [id : Users, can_view_all_data : BOOLEAN]

VARIABLES
    \* ---- ingestion pipeline ----
    scans,          \* the thermal_scans table (committed rows)
    stored_files,   \* files in batch-scoped storage: [batch_id, content]
    tasks,          \* analysis tasks created by asyncio.create_task, per batch id
    next_scan_id,   \* the table's autoincrement primary key
    next_batch,     \* create_batch_id() source
    pc,             \* per request: where the handler is
    req,            \* per request: the request and the handler's locals
    reply,          \* the last response of get_batch_status / get_batch_files / delete_batch
    substations,    \* the substations table: rows [id, is_active]
    db,             \* per request: the session get_db yields to the upload handler
    \* ---- model integrity gate ----
    model_file,     \* models_dir/yolo_nas_s_coco.pth: None or Some(bytes)
    metadata_file,  \* models_dir/yolo_nas_s_metadata.json: None or Some(record)
    expected_sha256,\* model_config[name]["expected_sha256"]
    loaded_models,  \* self.loaded_models: name -> None or Some(model)
    model_metadata, \* self.model_metadata: name -> None or Some(record)
    pin_writes,     \* number of assignments to expected_sha256 in this process
    restarts,       \* process lifetimes ended so far
    last,           \* the last operation on the gate and what it returned
    calls,          \* per thread: the gate call in flight and where it is
    effects         \* what the threads' calls have done so far, counted

ingestVars == <<scans, stored_files, tasks, next_scan_id, next_batch, pc, req, reply,
                substations, db>>
threadVars == <<calls, effects>>
loaderVars == <<model_file, metadata_file, expected_sha256, loaded_models,
                model_metadata, pin_writes, restarts, last, calls, effects>>
vars == <<scans, stored_files, tasks, next_scan_id, next_batch, pc, req, reply, substations, db,
          model_file, metadata_file, expected_sha256, loaded_models,
          model_metadata, pin_writes, restarts, last, calls, effects>>


(***************************************************************************)
(* Batch ingestion: inputs                                                 *)
(***************************************************************************)
\* An uploaded file: whether validate_image_file accepts its name and size,
\* and its bytes.  A file that fails validation is never hashed, so its
\* bytes are fixed.
UploadFiles ==
    {[valid |-> FALSE, content |-> 1]} \cup
    {[valid |-> TRUE, content |-> c] : c \in Contents}

\* The lengths of the file list a request can carry when the requests
\* accepted so far carry `taken` files: the lists that keep the total within
\* MaxFiles, a list of exactly the maximum length, and a list over the
\* limit, which is rejected before any file is read.  The files themselves
\* are drawn as the loop reaches them.
UploadSizes(taken) ==
    (0..(MaxFiles - taken)) \cup {MAX_FILES_PER_BATCH, MAX_FILES_PER_BATCH + 1}

\* thermal_processor.calculate_file_hash: SHA-256 of the bytes, injective on
\* the modelled contents
calculate_file_hash(content) == <<"sha256", content>>

\* FileUploadStatus, with two history fields: cause (which branch produced a
\* failure) and lost_to (the committed row holding the same hash at the
\* moment this file's INSERT was refused)
FileUploadStatus(st, id, cause, lost) ==
    [status |-> st, thermal_scan_id |-> id, cause |-> cause, lost_to |-> lost]

NoRequest ==
    [files |-> <<>>, nfiles |-> 0, user |-> "u1", batch_id |-> None, sequence |-> 1,
     successful_uploads |-> 0, failed_uploads |-> 0, upload_results |-> <<>>,
     file_hash |-> None, response |-> None,
     substations |-> {}, metadata |-> None, substation_id |-> None]

(***************************************************************************)
(* Batch ingestion: the persistence layer                                  *)
(***************************************************************************)
\* the batch ids create_batch_id() can return: one per request
BatchIds == 1..Cardinality(Requests)

\* Mutant of existing_scan: the lookup also filters on the processing status,
\* so a row still pending is not found
existing_scan_completed_only(file_hash) ==
    LET found == {s \in scans : s.file_hash = file_hash /\ s.processing_status = "completed"}
    IN  IF found = {} THEN None
        ELSE Some(CHOOSE s \in found : \A t \in found : s.id <= t.id)

\* Mutant of existing_scan: only the oldest row of the table is compared
existing_scan_oldest_row_only(file_hash) ==
    LET found == {s \in scans : s.file_hash = file_hash /\ \A t \in scans : s.id <= t.id}
    IN  IF found = {} THEN None
        ELSE Some(CHOOSE s \in found : \A t \in found : s.id <= t.id)

\* db.query(ThermalScan).filter(ThermalScan.file_hash == file_hash).first()
existing_scan(file_hash) ==
    LET found == {s \in scans : s.file_hash = file_hash}
    IN  IF found = {} THEN None
        ELSE Some(CHOOSE s \in found : \A t \in found : s.id <= t.id)

\* Mutant of unique_violation: the column has no uniqueness constraint
no_unique_constraint(row) == FALSE

\* The uniqueness constraint of thermal_scans.file_hash: the INSERT of a row
\* is refused while a committed row holds its hash.
unique_violation(row) == \E s \in scans : s.file_hash = row.file_hash

\* Mutant of batch_scans: the query is not filtered on the batch id
batch_scans_unfiltered(batch_id) == scans

\* db.query(ThermalScan).filter(ThermalScan.batch_id == batch_id).all()
batch_scans(batch_id) == {s \in scans : s.batch_id = batch_id}

\* Mutant of ThermalScan: the sequence number counts the rows the call has
\* committed instead of the files it has iterated
ThermalScan_numbered_by_uploads(r) ==
    [id |-> next_scan_id,
     file_hash |-> req[r].file_hash[1],
     batch_id |-> req[r].batch_id[1],
     batch_sequence |-> req[r].successful_uploads + 1,
     uploaded_by |-> req[r].user,
     substation_id |-> req[r].substation_id,
     processing_status |-> "pending",
     created_at |-> next_scan_id,
     processing_completed_at |-> None]

\* Mutant of ThermalScan: the batch id is drawn again for every row
ThermalScan_batch_id_per_file(r) ==
    [id |-> next_scan_id,
     file_hash |-> req[r].file_hash[1],
     batch_id |-> IF req[r].sequence = 1 THEN req[r].batch_id[1]
                  ELSE CHOOSE b \in BatchIds : b # req[r].batch_id[1],
     batch_sequence |-> req[r].sequence,
     uploaded_by |-> req[r].user,
     substation_id |-> req[r].substation_id,
     processing_status |-> "pending",
     created_at |-> next_scan_id,
     processing_completed_at |-> None]

\* Mutant of ThermalScan: the row is created as already being processed
ThermalScan_created_processing(r) ==
    [id |-> next_scan_id,
     file_hash |-> req[r].file_hash[1],
     batch_id |-> req[r].batch_id[1],
     batch_sequence |-> req[r].sequence,
     uploaded_by |-> req[r].user,
     substation_id |-> req[r].substation_id,
     processing_status |-> "processing",
     created_at |-> next_scan_id,
     processing_completed_at |-> None]

\* Mutant of ThermalScan: the row carries no running sequence number
ThermalScan_unnumbered(r) ==
    [id |-> next_scan_id,
     file_hash |-> req[r].file_hash[1],
     batch_id |-> req[r].batch_id[1],
     batch_sequence |-> 1,
     uploaded_by |-> req[r].user,
     substation_id |-> req[r].substation_id,
     processing_status |-> "pending",
     created_at |-> next_scan_id,
     processing_completed_at |-> None]

\* The ThermalScan(...) row built at upload.py:131-152
ThermalScan(r) ==
    [id |-> next_scan_id,
     file_hash |-> req[r].file_hash[1],
     batch_id |-> req[r].batch_id[1],
     batch_sequence |-> req[r].sequence,
     uploaded_by |-> req[r].user,
     substation_id |-> req[r].substation_id,
     processing_status |-> "pending",
     created_at |-> next_scan_id,
     processing_completed_at |-> None]

(***************************************************************************)
(* upload_thermal_images                                                   *)
(***************************************************************************)
\* Mutant of next_file: failures are recorded but not counted
next_file_failures_uncounted(rq, result, ok, failed) ==
    [rq EXCEPT !.sequence = @ + 1,
               !.upload_results = Append(@, result),
               !.successful_uploads = @ + ok,
               !.file_hash = None]

\* Mutant of next_file: a failure ends the loop
next_file_abort_on_failure(rq, result, ok, failed) ==
    [rq EXCEPT !.sequence = IF failed > 0 THEN rq.nfiles + 1 ELSE @ + 1,
               !.upload_results = Append(@, result),
               !.successful_uploads = @ + ok,
               !.failed_uploads = @ + failed,
               !.file_hash = None]

\* Mutant of next_file: only the first committed file is counted
next_file_counts_first_upload_only(rq, result, ok, failed) ==
    [rq EXCEPT !.sequence = @ + 1,
               !.upload_results = Append(@, result),
               !.successful_uploads = IF @ = 0 THEN ok ELSE @,
               !.failed_uploads = @ + failed,
               !.file_hash = None]

\* Mutant of next_file: a skipped duplicate is counted as a failure
next_file_skips_counted_failed(rq, result, ok, failed) ==
    [rq EXCEPT !.sequence = @ + 1,
               !.upload_results = Append(@, result),
               !.successful_uploads = @ + ok,
               !.failed_uploads = @ + (IF result.status = "skipped" THEN 1 ELSE failed),
               !.file_hash = None]

\* for sequence, file in enumerate(files, 1): the handler moves to the next
\* file with one more outcome recorded
next_file(rq, result, ok, failed) ==
    [rq EXCEPT !.sequence = @ + 1,
               !.upload_results = Append(@, result),
               !.successful_uploads = @ + ok,
               !.failed_uploads = @ + failed,
               !.file_hash = None]

\* files carried by the requests accepted so far
RECURSIVE sum_nfiles(_)
sum_nfiles(rs) ==
    IF rs = {} THEN 0
    ELSE LET r == CHOOSE x \in rs : TRUE
         IN  (IF pc[r] \in {"idle", "rejected"} \/ req[r].nfiles > MaxFiles
              THEN 0 ELSE req[r].nfiles) + sum_nfiles(rs \ {r})

files_taken == sum_nfiles(Requests)

\* Mutant of bad_request: the file-count check refuses the maximum itself
bad_request_at_maximum(nfiles) == nfiles = 0 \/ nfiles >= MAX_FILES_PER_BATCH

\* upload.py:59-70: `not files`, then `len(files) > 5000`
bad_request(nfiles) == nfiles = 0 \/ nfiles > MAX_FILES_PER_BATCH

\* upload.py:79: db.query(Substation).filter(Substation.is_active == True).all()
active_substations == {s \in substations : s.is_active}

\* upload.py:59-81: the request-shape checks, create_batch_id(), then the
\* query of the active substations, once for the whole call
upload_enter(r) ==
    /\ pc[r] = "idle"
    /\ \E nfiles \in UploadSizes(files_taken), u \in {current_user[r]} :
         IF bad_request(nfiles)
         THEN /\ pc' = [pc EXCEPT ![r] = "rejected"]
              /\ req' = [req EXCEPT ![r] =
                    [NoRequest EXCEPT !.nfiles = nfiles, !.user = u,
                                      !.response = Some([status_code |-> 400])]]
              /\ UNCHANGED next_batch
         ELSE /\ pc' = [pc EXCEPT ![r] = "loop"]
              /\ req' = [req EXCEPT ![r] =
                    [NoRequest EXCEPT !.nfiles = nfiles, !.user = u,
                                      !.batch_id = Some(next_batch),
                                      !.substations = active_substations]]
              /\ next_batch' = next_batch + 1
    /\ db' = [db EXCEPT ![r] = "open"]
    /\ UNCHANGED <<scans, stored_files, tasks, next_scan_id>>
    /\ UNCHANGED <<reply, substations, loaderVars>>

\* the coordinates the modelled images carry; substation i lies at latitude
\* i and longitude i
Coordinates == {0, 1}

\* what extract_image_metadata returns for the GPS tags of an image: no
\* position, or a latitude and a longitude
GPS ==
    {[latitude |-> None, longitude |-> None]} \cup
    {[latitude |-> Some(c), longitude |-> Some(c)] : c \in Coordinates}

\* Python truth value of metadata.get(key): None and 0 are false
truthy(v) == v # None /\ v # Some(0)

\* the largest distance at which a substation still matches
MaxDistance == 2

\* planar distance between a position and a substation
distance(latitude, longitude, s) ==
    (IF latitude >= s.id THEN latitude - s.id ELSE s.id - latitude)
    + (IF longitude >= s.id THEN longitude - s.id ELSE s.id - longitude)

\* thermal_processor.find_matching_substation: the nearest of the supplied
\* substations within MaxDistance, the lowest id on a tie, or None
find_matching_substation(latitude, longitude, supplied) ==
    LET near == {s \in supplied : distance(latitude, longitude, s) <= MaxDistance}
    IN  IF near = {} THEN None
        ELSE Some((CHOOSE s \in near : \A t \in near :
                      \/ distance(latitude, longitude, s) < distance(latitude, longitude, t)
                      \/ /\ distance(latitude, longitude, s) = distance(latitude, longitude, t)
                         /\ s.id <= t.id).id)

\* upload.py:122-128: substation_id stays None unless both coordinates are
\* truthy; the matcher is given the list queried before the loop
matched_substation(gps, supplied) ==
    IF truthy(gps.latitude) /\ truthy(gps.longitude)
    THEN find_matching_substation(gps.latitude[1], gps.longitude[1], supplied)
    ELSE None

\* Mutant of is_duplicate: the result of the lookup is not looked at
is_duplicate_never(existing) == FALSE

\* upload.py:105: if existing_scan
is_duplicate(existing) == existing # None

\* upload.py:85-128: read the next file, validate, hash, look for a duplicate,
\* then save_uploaded_file, extract_image_metadata, find_matching_substation.
\* save_ok = FALSE: save_uploaded_file raises; meta_ok = FALSE: the file is
\* saved and a later call raises.  Either way the except branch (166-173)
\* records a failure and nothing removes the file.  A file that fails
\* validation or is a duplicate never reaches these calls, so they are taken
\* as succeeding there.  The loop of a request is followed when its list is
\* within MaxFiles; a longer accepted list is followed up to its acceptance.
upload_file(r) ==
    /\ pc[r] = "loop"
    /\ req[r].nfiles <= MaxFiles
    /\ req[r].sequence <= req[r].nfiles
    /\ \E file \in UploadFiles, save_ok \in BOOLEAN, meta_ok \in BOOLEAN :
         LET file_hash == calculate_file_hash(file.content)
             existing == existing_scan(file_hash)
             read == [req[r] EXCEPT !.files = Append(@, file)]
             saved == [batch_id |-> req[r].batch_id[1], content |-> file.content]
         IN  IF ~file.valid
             THEN /\ save_ok /\ meta_ok
                  /\ req' = [req EXCEPT ![r] =
                        next_file(read, FileUploadStatus("failed", None, "validation", None), 0, 1)]
                  /\ UNCHANGED <<pc, stored_files>>
             ELSE IF is_duplicate(existing)
             THEN /\ save_ok /\ meta_ok
                  /\ req' = [req EXCEPT ![r] =
                        next_file(read, FileUploadStatus("skipped", Some(existing[1].id), "duplicate", None), 0, 0)]
                  /\ UNCHANGED <<pc, stored_files>>
             ELSE IF ~(save_ok /\ meta_ok)
             THEN /\ stored_files' = IF save_ok THEN stored_files \cup {saved} ELSE stored_files
                  /\ req' = [req EXCEPT ![r] =
                        next_file(read, FileUploadStatus("failed", None, "storage", None), 0, 1)]
                  /\ UNCHANGED pc
             ELSE \E gps \in GPS :
                  /\ stored_files' = stored_files \cup {saved}
                  /\ req' = [req EXCEPT ![r] =
                        [read EXCEPT !.file_hash = Some(file_hash),
                                     !.metadata = Some(gps),
                                     !.substation_id = matched_substation(gps, req[r].substations)]]
                  /\ pc' = [pc EXCEPT ![r] = "commit"]
    /\ UNCHANGED <<scans, tasks, next_scan_id, next_batch>>
    /\ UNCHANGED <<reply, substations, db, loaderVars>>

\* upload.py:131-152: once the row is built the metadata of the file is not
\* read again
row_built(rq) == [rq EXCEPT !.metadata = None]

\* upload.py:130-173: db.add, db.commit, db.refresh; an IntegrityError of the
\* commit is caught by the except branch like any other exception
upload_commit(r) ==
    /\ pc[r] = "commit"
    /\ IF unique_violation(ThermalScan(r))
       THEN /\ req' = [req EXCEPT ![r] =
                  next_file(row_built(req[r]), FileUploadStatus("failed", None, "IntegrityError",
                                                Some(existing_scan(req[r].file_hash[1])[1].id)), 0, 1)]
            /\ UNCHANGED <<scans, next_scan_id>>
       ELSE /\ scans' = scans \cup {ThermalScan(r)}
            /\ next_scan_id' = next_scan_id + 1
            /\ req' = [req EXCEPT ![r] =
                  next_file(row_built(req[r]), FileUploadStatus("uploaded", Some(next_scan_id), "none", None), 1, 0)]
    /\ pc' = [pc EXCEPT ![r] = "loop"]
    /\ UNCHANGED <<stored_files, tasks, next_batch>>
    /\ UNCHANGED <<reply, substations, db, loaderVars>>

\* database.py:41-54, get_db after its yield: when the handler has returned
\* (or raised) the session is committed (or rolled back) and closed
get_db_teardown(r) ==
    /\ pc[r] \in {"done", "rejected"}
    /\ db[r] = "open"
    /\ db' = [db EXCEPT ![r] = "closed"]
    /\ UNCHANGED <<scans, stored_files, tasks, next_scan_id, next_batch, pc, req, reply,
                   substations>>
    /\ UNCHANGED loaderVars

\* process_thermal_batch(batch_id, db, user_id), one step of the task created
\* at upload.py:179: through the session it was handed, the task takes a
\* pending row of its batch to 'completed' or 'failed'
process_thermal_batch(batch_id) ==
    /\ tasks[batch_id] # <<>>
    /\ \E s \in batch_scans(batch_id), st \in {"completed", "failed"} :
         /\ s.processing_status = "pending"
         /\ scans' = (scans \ {s}) \cup
               {[s EXCEPT !.processing_status = st,
                          !.processing_completed_at =
                              IF st = "completed" THEN Some(s.created_at + 1) ELSE None]}
    /\ UNCHANGED <<stored_files, tasks, next_scan_id, next_batch, pc, req, reply,
                   substations, db>>
    /\ UNCHANGED loaderVars

\* Mutant of loop_finished: the loop is left as soon as a file is uploaded
loop_finished_at_first_upload(rq) == rq.sequence > rq.nfiles \/ rq.successful_uploads > 0

\* upload.py:83: the for loop over the files is exhausted
loop_finished(rq) == rq.sequence > rq.nfiles

\* Mutant of start_processing: a task is scheduled for every call
start_processing_always(successful_uploads) == successful_uploads >= 0

\* upload.py:177: if successful_uploads > 0
start_processing(successful_uploads) == successful_uploads > 0

\* Mutant of create_task: one task is created per uploaded file
create_task_per_file(rq) ==
    [tasks EXCEPT ![rq.batch_id[1]] = @ \o [i \in 1..rq.successful_uploads |-> rq.user]]

\* upload.py:179: asyncio.create_task(process_thermal_batch(batch_id, db,
\* current_user.id))
create_task(rq) == [tasks EXCEPT ![rq.batch_id[1]] = Append(@, rq.user)]

\* upload.py:175-195: schedule the analysis task, build the UploadResponse
upload_finish(r) ==
    /\ pc[r] = "loop"
    /\ loop_finished(req[r])
    /\ LET queued == start_processing(req[r].successful_uploads)
       IN  /\ tasks' = IF queued
                       THEN create_task(req[r])
                       ELSE tasks
           /\ req' = [req EXCEPT ![r].response = Some(
                  [status_code |-> 200,
                   batch_id |-> req[r].batch_id[1],
                   total_files |-> req[r].nfiles,
                   successful_uploads |-> req[r].successful_uploads,
                   failed_uploads |-> req[r].failed_uploads,
                   processing_status |-> IF queued THEN "queued" ELSE "idle"])]
    /\ pc' = [pc EXCEPT ![r] = "done"]
    /\ UNCHANGED <<scans, stored_files, next_scan_id, next_batch>>
    /\ UNCHANGED <<reply, substations, db, loaderVars>>

(***************************************************************************)
(* delete_batch                                                            *)
(***************************************************************************)
\* A response of the tracker's handlers: the call (handler, batch id, caller),
\* the HTTP status and the body (None for an HTTPException, whose detail
\* is a fixed string)
Response(op, batch_id, user, status_code, body) ==
    [op |-> op, batch_id |-> batch_id, user |-> user,
     status_code |-> status_code, body |-> body]

\* no handler of the tracker has answered yet
NoResponse == Response("none", 0, None, 0, None)

\* thermal_processor.cleanup_batch_files(batch_id): the files left in storage
\* once the batch's directory is removed
cleanup_batch_files(batch_id) == {f \in stored_files : f.batch_id # batch_id}

\* Mutant of deleted_scans: the delete is not filtered on the batch id
deleted_scans_unfiltered(batch_id) == scans

\* upload.py:304, 313-314: the rows the handler deletes
deleted_scans(batch_id) == batch_scans(batch_id)

\* How a delete_batch call on a batch with rows can end: normally, or with
\* an exception of cleanup_batch_files (line 317) or of db.commit (line 319)
DeleteEndings == {"returns", "cleanup_raises", "commit_raises"}

\* the storage a cleanup_batch_files call that raises can leave: any of the
\* batch's files may already be removed
cleanup_interrupted(batch_id) ==
    {stored_files \ removed : removed \in SUBSET {f \in stored_files : f.batch_id = batch_id}}

\* upload.py:304-323: 404 when the batch has no rows; otherwise mark every
\* row deleted in the session, clean up the batch's files, commit.  The rows
\* leave the table at the commit: an exception before it or of it reaches
\* get_db, which rolls the session back (database.py:41-54), while the files
\* cleanup has removed stay removed.  The caller is an admin
\* (require_permission("admin")) and is only logged.
delete_batch(batch_id) ==
    /\ IF batch_scans(batch_id) = {}
       THEN /\ reply' = Response("delete_batch", batch_id, None, 404, None)
            /\ UNCHANGED <<scans, stored_files>>
       ELSE \E ending \in DeleteEndings :
               IF ending = "returns"
               THEN /\ scans' = scans \ deleted_scans(batch_id)
                    /\ stored_files' = cleanup_batch_files(batch_id)
                    /\ reply' = Response("delete_batch", batch_id, None, 200, Some("deleted"))
               ELSE /\ scans' = scans
                    /\ stored_files' \in IF ending = "cleanup_raises"
                                         THEN cleanup_interrupted(batch_id)
                                         ELSE {cleanup_batch_files(batch_id)}
                    /\ reply' = Response("delete_batch", batch_id, None, 500, None)
    /\ UNCHANGED <<tasks, next_scan_id, next_batch, pc, req, substations, db>>
    /\ UNCHANGED loaderVars

\* delete_batch ending without an exception of the cleanup or of the commit
delete_batch_returns(batch_id) ==
    /\ delete_batch(batch_id)
    /\ reply'.status_code # 500

\* delete_batch called on a batch that has rows and ending normally
delete_existing_batch(batch_id) ==
    /\ batch_scans(batch_id) # {}
    /\ delete_batch(batch_id)
    /\ reply'.status_code = 200

(***************************************************************************)
(* Batch state tracker: get_batch_status, get_batch_files                  *)
(***************************************************************************)
\* the values of ThermalScan.processing_status the tracker tells apart
Statuses == {"pending", "processing", "completed", "failed"}

\* Mutant of access_denied: the ownership check is skipped
access_denied_never(found, user) == FALSE

\* upload.py:215-221 and 279-284: the caller has no blanket view rights and
\* uploaded none of the batch's rows
access_denied(found, user) ==
    /\ ~user.can_view_all_data
    /\ ~\E scan \in found : scan.uploaded_by = user.id

\* the rows of `found` with this processing status
with_status(found, st) == {s \in found : s.processing_status = st}

\* Mutant of overall_status: a batch whose rows are all terminal counts as
\* completed when any row completed
overall_status_completed_when_mixed(found) ==
    LET total_images == Cardinality(found)
        processed_images == Cardinality(with_status(found, "completed"))
        failed_images == Cardinality(with_status(found, "failed"))
        pending_images == Cardinality(with_status(found, "pending"))
        processing_images == Cardinality(with_status(found, "processing"))
    IN  IF failed_images = total_images THEN "failed"
        ELSE IF processed_images + failed_images = total_images THEN "completed"
        ELSE IF processing_images > 0 THEN "processing"
        ELSE IF pending_images > 0 THEN "pending"
        ELSE "unknown"

\* Mutant of overall_status: 'pending' is looked for before 'processing'
overall_status_pending_first(found) ==
    LET total_images == Cardinality(found)
    IN  IF Cardinality(with_status(found, "failed")) = total_images THEN "failed"
        ELSE IF Cardinality(with_status(found, "completed")) = total_images THEN "completed"
        ELSE IF Cardinality(with_status(found, "pending")) > 0 THEN "pending"
        ELSE IF Cardinality(with_status(found, "processing")) > 0 THEN "processing"
        ELSE "unknown"

\* upload.py:224-240: the overall status of the rows of a batch
overall_status(found) ==
    LET total_images == Cardinality(found)
        processed_images == Cardinality(with_status(found, "completed"))
        failed_images == Cardinality(with_status(found, "failed"))
        pending_images == Cardinality(with_status(found, "pending"))
        processing_images == Cardinality(with_status(found, "processing"))
    IN  IF failed_images = total_images THEN "failed"
        ELSE IF processed_images = total_images THEN "completed"
        ELSE IF processing_images > 0 THEN "processing"
        ELSE IF pending_images > 0 THEN "pending"
        ELSE "unknown"

\* f"{duration:.1f} seconds", for a duration given in tenths of a second
format_duration(tenths) == [tenths |-> tenths, unit |-> "seconds"]

\* min(scans, key=lambda x: x.created_at).created_at
first_created_at(found) ==
    CHOOSE t \in {s.created_at : s \in found} : \A s \in found : t <= s.created_at

\* max(completed_scans, key=...).processing_completed_at
last_completed_at(completed_scans) ==
    CHOOSE t \in {s.processing_completed_at[1] : s \in completed_scans} :
        \A s \in completed_scans : t >= s.processing_completed_at[1]

\* Mutant of processing_duration: the duration starts at the creation of the
\* first completed row
processing_duration_of_completed_rows(found) ==
    LET completed_scans == {s \in found : s.processing_completed_at # None}
    IN  IF completed_scans = {} THEN None
        ELSE Some(format_duration(last_completed_at(completed_scans)
                                  - first_created_at(completed_scans)))

\* upload.py:242-250: None unless a row carries processing_completed_at
processing_duration(found) ==
    LET completed_scans == {s \in found : s.processing_completed_at # None}
    IN  IF completed_scans = {} THEN None
        ELSE Some(format_duration(last_completed_at(completed_scans)
                                  - first_created_at(found)))

\* upload.py:252-260: the BatchStatus returned (counts, overall status and
\* processing duration)
BatchStatus(batch_id, found) ==
    [batch_id |-> batch_id,
     total_images |-> Cardinality(found),
     processed_images |-> Cardinality(with_status(found, "completed")),
     failed_images |-> Cardinality(with_status(found, "failed")),
     status |-> overall_status(found),
     processing_duration |-> processing_duration(found)]

\* Mutant of sorted_by_sequence: sorted(..., reverse=True)
RECURSIVE sorted_by_sequence_reversed(_)
sorted_by_sequence_reversed(found) ==
    IF found = {} THEN <<>>
    ELSE LET first == CHOOSE x \in found : \A y \in found :
                         \/ x.batch_sequence > y.batch_sequence
                         \/ x.batch_sequence = y.batch_sequence /\ x.id >= y.id
         IN  <<first>> \o sorted_by_sequence_reversed(found \ {first})

\* sorted(scans, key=lambda x: x.batch_sequence); rows of equal sequence are
\* taken in id order
RECURSIVE sorted_by_sequence(_)
sorted_by_sequence(found) ==
    IF found = {} THEN <<>>
    ELSE LET first == CHOOSE x \in found : \A y \in found :
                         \/ x.batch_sequence < y.batch_sequence
                         \/ x.batch_sequence = y.batch_sequence /\ x.id <= y.id
         IN  <<first>> \o sorted_by_sequence(found \ {first})

\* upload.py:286-294: one entry per row, in batch_sequence order
batch_files(found) ==
    LET sorted == sorted_by_sequence(found)
    IN  [i \in 1..Len(sorted) |->
            [status |-> sorted[i].processing_status, thermal_scan_id |-> sorted[i].id]]

\* Mutant of get_batch_status: the access check comes before the existence
\* check
get_batch_status_access_first(batch_id, user) ==
    /\ LET found == batch_scans(batch_id)
       IN  reply' =
              IF access_denied(found, user)
              THEN Response("get_batch_status", batch_id, Some(user), 403, None)
              ELSE IF found = {} THEN Response("get_batch_status", batch_id, Some(user), 404, None)
              ELSE Response("get_batch_status", batch_id, Some(user), 200,
                            Some(BatchStatus(batch_id, found)))
    /\ UNCHANGED <<scans, stored_files, tasks, next_scan_id, next_batch, pc, req, substations, db>>
    /\ UNCHANGED loaderVars

\* upload.py:197-260
get_batch_status(batch_id, user) ==
    /\ LET found == batch_scans(batch_id)
       IN  reply' =
              IF found = {} THEN Response("get_batch_status", batch_id, Some(user), 404, None)
              ELSE IF access_denied(found, user)
              THEN Response("get_batch_status", batch_id, Some(user), 403, None)
              ELSE Response("get_batch_status", batch_id, Some(user), 200,
                            Some(BatchStatus(batch_id, found)))
    /\ UNCHANGED <<scans, stored_files, tasks, next_scan_id, next_batch, pc, req, substations, db>>
    /\ UNCHANGED loaderVars

\* upload.py:262-294
get_batch_files(batch_id, user) ==
    /\ LET found == batch_scans(batch_id)
       IN  reply' =
              IF found = {} THEN Response("get_batch_files", batch_id, Some(user), 404, None)
              ELSE IF access_denied(found, user)
              THEN Response("get_batch_files", batch_id, Some(user), 403, None)
              ELSE Response("get_batch_files", batch_id, Some(user), 200,
                            Some(batch_files(found)))
    /\ UNCHANGED <<scans, stored_files, tasks, next_scan_id, next_batch, pc, req, substations, db>>
    /\ UNCHANGED loaderVars

\* The table the tracker is called on: up to MaxScans rows, each in one of
\* the batches, uploaded by the user of the call that created the batch,
\* sequence numbers increasing with the ids, and in any processing status the
\* analysis dispatcher has left; in storage, the file of each row and, for
\* some batches, a file that was saved and whose processing then failed
\* (content 0).
TimedScan(id, batch_id, st, completed_at) ==
    [id |-> id,
     file_hash |-> calculate_file_hash(id),
     batch_id |-> batch_id,
     batch_sequence |-> id,
     uploaded_by |-> IF batch_id = 1 THEN "u1" ELSE "u2",
     substation_id |-> None,
     processing_status |-> st,
     created_at |-> id,
     processing_completed_at |-> completed_at]

\* a row whose analysis, when completed, ended one tick after the row was
\* created
TrackerScan(id, batch_id, st) ==
    TimedScan(id, batch_id, st, IF st = "completed" THEN Some(id + 1) ELSE None)

\* the ticks of the clock the rows are stamped with (tenths of a second):
\* row i is created at tick i
Clock == 1..(MaxScans + 2)

\* The analysis dispatcher stamps processing_completed_at when it sets a row
\* to completed, at any tick after the row's creation; no other row carries
\* a completion timestamp.
CompletionStamps(id, st) ==
    IF st = "completed" THEN {Some(t) : t \in {c \in Clock : c > id}} ELSE {None}

\* The tables get_batch_status is called on when the completion times are
\* drawn as well
TimedTableInit ==
    /\ \E n \in 0..MaxScans :
         \E batch_of \in [1..n -> BatchIds], status_of \in [1..n -> Statuses] :
            \E completed_at \in [1..n -> {None} \cup {Some(t) : t \in Clock}] :
               /\ \A i \in 1..n : completed_at[i] \in CompletionStamps(i, status_of[i])
               /\ scans = {TimedScan(i, batch_of[i], status_of[i], completed_at[i]) : i \in 1..n}
               /\ stored_files = {[batch_id |-> batch_of[i], content |-> i] : i \in 1..n}
               /\ next_scan_id = n + 1
    /\ tasks = [b \in BatchIds |-> <<>>]
    /\ next_batch = Cardinality(BatchIds) + 1
    /\ pc = [r \in Requests |-> "idle"]
    /\ db = [r \in Requests |-> "none"]
    /\ req = [r \in Requests |-> NoRequest]
    /\ reply = NoResponse
    /\ substations = {}

TrackerInit ==
    /\ \E n \in 0..MaxScans :
         \E batch_of \in [1..n -> BatchIds], status_of \in [1..n -> Statuses],
            orphans \in SUBSET BatchIds :
            /\ scans = {TrackerScan(i, batch_of[i], status_of[i]) : i \in 1..n}
            /\ stored_files = {[batch_id |-> batch_of[i], content |-> i] : i \in 1..n}
                                 \cup {[batch_id |-> b, content |-> 0] : b \in orphans}
            /\ next_scan_id = n + 1
    /\ tasks = [b \in BatchIds |-> <<>>]
    /\ next_batch = Cardinality(BatchIds) + 1
    /\ pc = [r \in Requests |-> "idle"]
    /\ db = [r \in Requests |-> "none"]
    /\ req = [r \in Requests |-> NoRequest]
    /\ reply = NoResponse
    /\ substations = {}

\* The state one more upload call starts in when earlier calls of another
\* user have left up to MaxScans rows (the contents 1, 2, ... in that order,
\* in one batch) and the analysis dispatcher has left each row in any status
TableInit ==
    /\ \E n \in 0..MaxScans :
         \E status_of \in [1..n -> Statuses] :
            /\ scans = {TrackerScan(i, 2, status_of[i]) : i \in 1..n}
            /\ stored_files = {[batch_id |-> 2, content |-> i] : i \in 1..n}
            /\ next_scan_id = n + 1
    /\ tasks = [b \in BatchIds |-> <<>>]
    /\ next_batch = 1
    /\ pc = [r \in Requests |-> "idle"]
    /\ db = [r \in Requests |-> "none"]
    /\ req = [r \in Requests |-> NoRequest]
    /\ reply = NoResponse
    /\ substations = {}

\* the empty thermal_scans table and storage, no call made yet
IngestStart ==
    /\ scans = {}
    /\ stored_files = {}
    /\ tasks = [b \in BatchIds |-> <<>>]
    /\ next_scan_id = 1
    /\ next_batch = 1
    /\ pc = [r \in Requests |-> "idle"]
    /\ db = [r \in Requests |-> "none"]
    /\ req = [r \in Requests |-> NoRequest]
    /\ reply = NoResponse

\* no substation registered
IngestInit ==
    /\ IngestStart
    /\ substations = {}

\* the substations table with NumSubstations rows, each active or not
SubstationIds == 1..NumSubstations

SubstationsInit ==
    /\ IngestStart
    /\ \E is_active \in [SubstationIds -> BOOLEAN] :
         substations = {[id |-> i, is_active |-> is_active[i]] : i \in SubstationIds}

\* The substation provider deactivates a substation while upload calls run:
\* an UPDATE of is_active committed by another session
deactivate_substation(id) ==
    /\ \E s \in substations :
         /\ s.id = id
         /\ s.is_active
         /\ substations' = (substations \ {s}) \cup {[s EXCEPT !.is_active = FALSE]}
    /\ UNCHANGED <<scans, stored_files, tasks, next_scan_id, next_batch, pc, req, reply, db>>
    /\ UNCHANGED loaderVars

(***************************************************************************)
(* Model integrity gate: ProductionModelLoader                             *)
(***************************************************************************)
\* self.model_config: the configured artifacts (model_loader.py:46-54)
model_config == {"yolo_nas_s"}

\* the names verify_model_integrity can be called with
ModelNames == model_config \cup {"unknown_model"}

ModelBytes == 1..NumModelBytes

\* hashlib.sha256 over the file's chunks, hexdigest (model_loader.py:81-88):
\* injective on the modelled file contents
sha256_hexdigest(bytes) == <<"sha256", bytes>>

\* the metadata verify_model_integrity hands to _save_model_metadata (93-98)
pin_metadata(checksum) == [checksum |-> checksum, version |-> "1.0"]

\* What the last call on the gate did.  readable: whether the call could
\* open and read the model file; verify: what the verify step of the call
\* returned; local: what became of deserializing the local file; fetched:
\* whether models.get(..., pretrained_weights='coco') supplied the model;
\* result: what the call returned or raised.
Outcome(op, name, readable, verify, local, fetched, result, exists, verified) ==
    [op |-> op, name |-> name, readable |-> readable, verify |-> verify,
     local |-> local, fetched |-> fetched, result |-> result,
     file_exists |-> exists, integrity_verified |-> verified]

NoOutcome(op) == Outcome(op, "n/a", TRUE, "n/a", "n/a", FALSE, "n/a", FALSE, FALSE)

\* Mutant of verify_result: a missing file makes verify return False
verify_result_false_when_missing(name, read_ok) ==
    IF name \notin model_config THEN "ModelIntegrityError"
    ELSE IF model_file = None THEN "False"
    ELSE IF ~read_ok THEN "ModelIntegrityError"
    ELSE IF expected_sha256[name] = None THEN "True"
    ELSE IF sha256_hexdigest(model_file[1]) # expected_sha256[name][1]
         THEN "ModelIntegrityError"
    ELSE "True"

\* Mutant of verify_result: a checksum mismatch is logged and not raised
verify_result_warn_only(name, read_ok) ==
    IF name \notin model_config THEN "ModelIntegrityError"
    ELSE IF model_file = None THEN "ModelIntegrityError"
    ELSE IF ~read_ok THEN "ModelIntegrityError"
    ELSE "True"

\* verify_model_integrity's return value (model_loader.py:71-115).  read_ok =
\* FALSE: opening or reading the file raises, which the except branch turns
\* into ModelIntegrityError.
verify_result(name, read_ok) ==
    IF name \notin model_config THEN "ModelIntegrityError"
    ELSE IF model_file = None THEN "ModelIntegrityError"
    ELSE IF ~read_ok THEN "ModelIntegrityError"
    ELSE IF expected_sha256[name] = None THEN "True"
    ELSE IF sha256_hexdigest(model_file[1]) # expected_sha256[name][1]
         THEN "ModelIntegrityError"
    ELSE "True"

\* Mutant of verify_pins: the computed checksum is stored on every call, not
\* only while none is pinned
verify_pins_each_time(name, read_ok) ==
    /\ name \in model_config
    /\ model_file # None
    /\ read_ok

\* model_loader.py:91: the call stores the checksum it computed
verify_pins(name, read_ok) ==
    /\ name \in model_config
    /\ model_file # None
    /\ read_ok
    /\ expected_sha256[name] = None

\* verify_model_integrity's writes (model_loader.py:92-98, 235-243).
\* save_ok = FALSE: writing the metadata file raises inside
\* _save_model_metadata, which logs a warning and returns.
verify_writes(name, read_ok, save_ok) ==
    LET pins == verify_pins(name, read_ok)
    IN  /\ expected_sha256' =
              IF pins THEN [expected_sha256 EXCEPT ![name] = Some(sha256_hexdigest(model_file[1]))]
              ELSE expected_sha256
        /\ metadata_file' =
              IF pins /\ save_ok THEN Some(pin_metadata(sha256_hexdigest(model_file[1])))
              ELSE metadata_file
        /\ pin_writes' = IF pins THEN pin_writes + 1 ELSE pin_writes

\* verify_model_integrity(model_name)
verify_model_integrity(name) ==
    \E read_ok \in BOOLEAN, save_ok \in BOOLEAN :
        /\ verify_writes(name, read_ok, save_ok)
        /\ last' = Outcome("verify", name, read_ok, verify_result(name, read_ok), "n/a", FALSE,
                           verify_result(name, read_ok), model_file # None, FALSE)
        /\ UNCHANGED <<model_file, loaded_models, model_metadata, restarts>>
        /\ UNCHANGED <<ingestVars, threadVars>>

\* Mutant of verify_passed: the ModelIntegrityError of the verify step is
\* swallowed and the load goes on
verify_ignored(verified) == TRUE

\* load_yolo_nas_model goes on to load the model only when its verify step
\* returned; a ModelIntegrityError leaves the function (model_loader.py:130-132,
\* 184-186)
verify_passed(verified) == verified = "True"

\* What became of the local checkpoint in load_yolo_nas_model
\* (model_loader.py:144-155): not reached, deserialized, or torch.load /
\* load_state_dict raised
local_checkpoint(import_ok, torch_ok) ==
    IF ~import_ok \/ model_file = None THEN "n/a"
    ELSE IF torch_ok THEN "loaded"
    ELSE "failed"

\* The model load_yolo_nas_model ends up with after its verify step
\* (model_loader.py:137-161): none when the import or models.get raises; the
\* local checkpoint when the file exists and deserializes; otherwise (the
\* checkpoint does not deserialize, or there is no file) the pretrained weights
\* models.get downloads, when that succeeds.
loaded_model(import_ok, torch_ok, download_ok) ==
    IF ~import_ok THEN None
    ELSE IF model_file # None /\ torch_ok
         THEN Some([source |-> "local_checkpoint", bytes |-> model_file[1]])
    ELSE IF download_ok THEN Some([source |-> "pretrained_coco", bytes |-> 0])
    ELSE None

\* load_yolo_nas_model (model_loader.py:117-188), entered as op: by itself or
\* from initialize_all_models, which returns True for a model and re-raises
\* both errors (263-292)
load_model(op, returns) ==
    /\ UNCHANGED <<ingestVars, threadVars>>
    /\ \E read_ok \in BOOLEAN, save_ok \in BOOLEAN,
          import_ok \in BOOLEAN, torch_ok \in BOOLEAN, download_ok \in BOOLEAN :
        LET name == "yolo_nas_s"
            verified == verify_result(name, read_ok)
            model == loaded_model(import_ok, torch_ok, download_ok)
            local == local_checkpoint(import_ok, torch_ok)
        IN  IF ~verify_passed(verified)
            THEN /\ last' = Outcome(op, name, read_ok, verified, "n/a", FALSE,
                                    "ModelIntegrityError", model_file # None, FALSE)
                 /\ UNCHANGED <<model_file, metadata_file, expected_sha256, loaded_models,
                                model_metadata, pin_writes, restarts>>
            ELSE /\ verify_writes(name, read_ok, save_ok)
                 /\ IF model = None
                    THEN /\ last' = Outcome(op, name, read_ok, verified, local, FALSE,
                                            "ModelLoadingError", model_file # None,
                                            verified = "True")
                         /\ UNCHANGED <<loaded_models, model_metadata>>
                    ELSE /\ loaded_models' = [loaded_models EXCEPT ![name] = model]
                         /\ model_metadata' = [model_metadata EXCEPT ![name] =
                                                  Some([status |-> "loaded", version |-> "1.0"])]
                         /\ last' = Outcome(op, name, read_ok, verified, local,
                                            model[1].source = "pretrained_coco",
                                            returns, model_file # None, verified = "True")
                 /\ UNCHANGED <<model_file, restarts>>

load_yolo_nas_model == load_model("load", "model")

initialize_all_models == load_model("initialize_all", "True")

\* get_model_status (model_loader.py:190-233): for each configured artifact
\* whose file exists, verify_model_integrity is called
get_model_status ==
    \E read_ok \in BOOLEAN, save_ok \in BOOLEAN :
        LET name == "yolo_nas_s"
            exists == model_file # None
        IN  /\ IF exists
               THEN verify_writes(name, read_ok, save_ok)
               ELSE UNCHANGED <<expected_sha256, metadata_file, pin_writes>>
            /\ last' = Outcome("status", name, read_ok,
                               IF exists THEN verify_result(name, read_ok) ELSE "n/a",
                               "n/a", FALSE, "status", exists,
                               exists /\ verify_result(name, read_ok) = "True")
            /\ UNCHANGED <<model_file, loaded_models, model_metadata, restarts>>
            /\ UNCHANGED <<ingestVars, threadVars>>

\* ProductionModelLoader.__init__ in a new process over the same models
\* directory (model_loader.py:36-56): nothing is read from the directory
restart_process ==
    /\ restarts < MaxRestarts
    /\ restarts' = restarts + 1
    /\ expected_sha256' = [n \in model_config |-> None]
    /\ loaded_models' = [n \in model_config |-> None]
    /\ model_metadata' = [n \in model_config |-> None]
    /\ pin_writes' = 0
    /\ last' = NoOutcome("restart")
    /\ UNCHANGED <<model_file, metadata_file>>
    /\ UNCHANGED <<ingestVars, threadVars>>

\* The environment: the model file is written (created or modified)
write_model_file ==
    \E b \in ModelBytes :
        /\ model_file # Some(b)
        /\ model_file' = Some(b)
        /\ last' = NoOutcome("write_file")
        /\ UNCHANGED <<metadata_file, expected_sha256, loaded_models, model_metadata,
                       pin_writes, restarts>>
        /\ UNCHANGED <<ingestVars, threadVars>>

\* The environment: the model file is removed
remove_model_file ==
    /\ model_file # None
    /\ model_file' = None
    /\ last' = NoOutcome("remove_file")
    /\ UNCHANGED <<metadata_file, expected_sha256, loaded_models, model_metadata,
                   pin_writes, restarts>>
    /\ UNCHANGED <<ingestVars, threadVars>>

(***************************************************************************)
(* The gate called from two threads                                        *)
(***************************************************************************)
\* ProductionModelLoader takes no lock and model_loader is one object per
\* process, so calls from two threads interleave between statements.
Threads == {"t1", "t2"}

\* a thread with no call on the gate
NoCall == [pc |-> "idle", op |-> "n/a", checksum |-> None, overlaps |-> FALSE]

NoEffects == [metadata_writes |-> 0, downloads |-> 0, loads |-> 0]

\* the calls that have been entered and have not returned or raised
in_flight == {t \in Threads : calls[t].pc \in {"verify", "pin", "load"}}

\* the load calls among them
loads_in_flight == {t \in in_flight : calls[t].op = "load"}

\* A thread enters verify_model_integrity("yolo_nas_s") or
\* load_yolo_nas_model (model_loader.py:58, 117); overlaps records that a
\* load call was in flight then
thread_call(t) ==
    /\ calls[t].pc = "idle"
    /\ \E op \in {"verify", "load"} :
          calls' = [calls EXCEPT ![t] = [pc |-> "verify", op |-> op, checksum |-> None,
                                         overlaps |-> loads_in_flight # {}]]
    /\ UNCHANGED <<model_file, metadata_file, expected_sha256, loaded_models,
                   model_metadata, pin_writes, restarts, last, effects>>
    /\ UNCHANGED ingestVars

\* model_loader.py:71-91 and 102-112: exists(), the checksum of the file, the
\* test of expected_sha256 and, when a checksum is pinned, the comparison
thread_verify_check(t) ==
    /\ calls[t].pc = "verify"
    /\ LET name == "yolo_nas_s"
           result == verify_result(name, TRUE)
           next == IF result # "True" THEN "raised"
                   ELSE IF verify_pins(name, TRUE) THEN "pin"
                   ELSE IF calls[t].op = "load" THEN "load"
                   ELSE "returned"
       IN  calls' = [calls EXCEPT ![t].pc = next,
                                  ![t].checksum = IF model_file = None THEN None
                                                  ELSE Some(sha256_hexdigest(model_file[1]))]
    /\ UNCHANGED <<model_file, metadata_file, expected_sha256, loaded_models,
                   model_metadata, pin_writes, restarts, last, effects>>
    /\ UNCHANGED ingestVars

\* model_loader.py:92-100: the checksum is stored and the metadata file written
thread_verify_pin(t) ==
    /\ calls[t].pc = "pin"
    /\ expected_sha256' = [expected_sha256 EXCEPT !["yolo_nas_s"] = calls[t].checksum]
    /\ pin_writes' = pin_writes + 1
    /\ metadata_file' = Some(pin_metadata(calls[t].checksum[1]))
    /\ effects' = [effects EXCEPT !.metadata_writes = @ + 1]
    /\ calls' = [calls EXCEPT ![t].pc = IF calls[t].op = "load" THEN "load" ELSE "returned"]
    /\ UNCHANGED <<model_file, loaded_models, model_metadata, restarts, last>>
    /\ UNCHANGED ingestVars

\* model_loader.py:137-177: the model is built from the local checkpoint or,
\* when that does not deserialize or the file is gone, from the pretrained
\* weights models.get downloads; it is put into loaded_models
thread_load(t) ==
    /\ calls[t].pc = "load"
    /\ \E torch_ok \in BOOLEAN :
          LET model == loaded_model(TRUE, torch_ok, TRUE)
          IN  /\ loaded_models' = [loaded_models EXCEPT !["yolo_nas_s"] = model]
              /\ effects' = [effects EXCEPT
                                !.downloads = IF model[1].source = "pretrained_coco" THEN @ + 1 ELSE @,
                                !.loads = @ + 1]
    /\ model_metadata' = [model_metadata EXCEPT !["yolo_nas_s"] =
                              Some([status |-> "loaded", version |-> "1.0"])]
    /\ calls' = [calls EXCEPT ![t].pc = "returned"]
    /\ UNCHANGED <<model_file, metadata_file, expected_sha256, pin_writes, restarts, last>>
    /\ UNCHANGED ingestVars

LoaderInit ==
    /\ calls = [t \in Threads |-> NoCall]
    /\ effects = NoEffects
    /\ model_file \in {None} \cup {Some(b) : b \in ModelBytes}
    /\ metadata_file = None
    /\ expected_sha256 = [n \in model_config |-> None]
    /\ loaded_models = [n \in model_config |-> None]
    /\ model_metadata = [n \in model_config |-> None]
    /\ pin_writes = 0
    /\ restarts = 0
    /\ last = NoOutcome("init")

\* The gate before the process has touched it and with no model file
LoaderIdle ==
    /\ calls = [t \in Threads |-> NoCall]
    /\ effects = NoEffects
    /\ model_file = None
    /\ metadata_file = None
    /\ expected_sha256 = [n \in model_config |-> None]
    /\ loaded_models = [n \in model_config |-> None]
    /\ model_metadata = [n \in model_config |-> None]
    /\ pin_writes = 0
    /\ restarts = 0
    /\ last = NoOutcome("init")

(***************************************************************************)
(* Specifications                                                          *)
(***************************************************************************)
Init == IngestInit /\ LoaderIdle

Next ==
    \/ \E r \in Requests : upload_enter(r)
    \/ \E r \in Requests : upload_file(r)
    \/ \E r \in Requests : upload_commit(r)
    \/ \E r \in Requests : upload_finish(r)
    \/ \E b \in BatchIds : delete_existing_batch(b)

Spec == Init /\ [][Next]_vars

InitLoader == IngestInit /\ LoaderInit

NextLoader ==
    \/ \E name \in ModelNames : verify_model_integrity(name)
    \/ load_yolo_nas_model
    \/ initialize_all_models
    \/ get_model_status
    \/ restart_process
    \/ write_model_file
    \/ remove_model_file

SpecLoader == InitLoader /\ [][NextLoader]_vars

NextLoaderThreads ==
    \/ \E t \in Threads : thread_call(t)
    \/ \E t \in Threads : thread_verify_check(t)
    \/ \E t \in Threads : thread_verify_pin(t)
    \/ \E t \in Threads : thread_load(t)
    \/ write_model_file
    \/ remove_model_file

SpecLoaderThreads == InitLoader /\ [][NextLoaderThreads]_vars

InitIngestOnTable == TableInit /\ LoaderIdle

\* the request served on the table
OneRequest == {"r1"}

NextIngestOnTable ==
    \/ \E r \in OneRequest : upload_enter(r)
    \/ \E r \in OneRequest : upload_file(r)
    \/ \E r \in OneRequest : upload_commit(r)
    \/ \E r \in OneRequest : upload_finish(r)

SpecIngestOnTable == InitIngestOnTable /\ [][NextIngestOnTable]_vars

InitIngestSubstations == SubstationsInit /\ LoaderIdle

NextIngestSubstations ==
    \/ \E r \in OneRequest : upload_enter(r)
    \/ \E r \in OneRequest : upload_file(r)
    \/ \E r \in OneRequest : upload_commit(r)
    \/ \E r \in OneRequest : upload_finish(r)
    \/ \E id \in SubstationIds : deactivate_substation(id)

SpecIngestSubstations == InitIngestSubstations /\ [][NextIngestSubstations]_vars

InitStatusTimes == TimedTableInit /\ LoaderIdle

NextStatusTimes == \E b \in BatchIds, user \in Requesters : get_batch_status(b, user)

SpecStatusTimes == InitStatusTimes /\ [][NextStatusTimes]_vars

\* one upload call on the empty table, the teardown of its session and the
\* steps of the analysis task it has created
NextIngestTask ==
    \/ \E r \in OneRequest : upload_enter(r)
    \/ \E r \in OneRequest : upload_file(r)
    \/ \E r \in OneRequest : upload_commit(r)
    \/ \E r \in OneRequest : upload_finish(r)
    \/ \E r \in OneRequest : get_db_teardown(r)
    \/ \E b \in BatchIds : process_thermal_batch(b)

SpecIngestTask == Init /\ [][NextIngestTask]_vars

\* one upload call on the empty table, and status queries at any moment
NextIngestThenStatus ==
    \/ \E r \in OneRequest : upload_enter(r)
    \/ \E r \in OneRequest : upload_file(r)
    \/ \E r \in OneRequest : upload_commit(r)
    \/ \E r \in OneRequest : upload_finish(r)
    \/ \E b \in BatchIds, user \in Requesters : get_batch_status(b, user)

SpecIngestThenStatus == Init /\ [][NextIngestThenStatus]_vars

InitTracker == TrackerInit /\ LoaderIdle

NextTracker ==
    \/ \E b \in BatchIds, user \in Requesters : get_batch_status(b, user)
    \/ \E b \in BatchIds, user \in Requesters : get_batch_files(b, user)
    \/ \E b \in BatchIds : delete_batch_returns(b)

SpecTracker == InitTracker /\ [][NextTracker]_vars

\* delete_batch with every ending, on the same tables
NextDelete == \E b \in BatchIds : delete_batch(b)

SpecDelete == InitTracker /\ [][NextDelete]_vars

(***************************************************************************)
(* Properties of the ingestion pipeline (checked under Spec)                *)
(***************************************************************************)
\* every outcome recorded so far, with the request and file it belongs to
Outcomes ==
    UNION {{[request |-> r, index |-> i, file |-> req[r].files[i],
             result |-> req[r].upload_results[i]] : i \in 1..Len(req[r].upload_results)} :
           r \in Requests}

\* the committed rows holding the hash of this content
scans_of(content) == {s \in scans : s.file_hash = calculate_file_hash(content)}

\* request r takes the next file of its list in this step
reads_file(r) == pc[r] = "loop" /\ Len(req'[r].files) = Len(req[r].files) + 1

\* the outcome request r has just recorded
new_result(r) == req'[r].upload_results[Len(req'[r].upload_results)]

\* C1: in every reachable state, whatever the interleaving of upload requests
\* and batch deletions, no two rows of thermal_scans hold the same content
\* hash, whether they belong to one batch or to two.
C1_UniqueContentHash ==
    \A s \in scans, t \in scans : s.file_hash = t.file_hash => s = t

\* C1 witness: rows of two batches are committed and a request's INSERT of a
\* hash that another request had committed meanwhile has been refused.
C1_Witness ==
    /\ \E s \in scans, t \in scans : s.batch_id # t.batch_id
    /\ \E o \in Outcomes : o.result.cause = "IntegrityError"

\* C2: when a valid file is processed while a row with its content hash is
\* committed (the identical content was uploaded before, by this request or by
\* another), no row is added, that row stays the only one with the hash, and
\* the file's outcome is 'skipped' with thermal_scan_id the id of the row that
\* the earlier upload of the same content created.
C2_SecondUploadSkipped ==
    [][\A r \in Requests :
          reads_file(r) =>
             LET file == req'[r].files[Len(req'[r].files)]
                 first == scans_of(file.content)
             IN  (file.valid /\ first # {}) =>
                    /\ scans' = scans
                    /\ Cardinality(first) = 1
                    /\ Len(req'[r].upload_results) = Len(req[r].upload_results) + 1
                    /\ new_result(r).status = "skipped"
                    /\ \E o \in Outcomes :
                          /\ o.file.content = file.content
                          /\ o.result.status = "uploaded"
                          /\ o.result.thermal_scan_id = new_result(r).thermal_scan_id
                          /\ first = {s \in scans : Some(s.id) = o.result.thermal_scan_id}
      ]_vars

\* C2 witness: one request has uploaded a content and skipped its second copy
\* in the same call, and the other request has skipped a copy of it too, all
\* three outcomes naming the one row with that hash.
C2_Witness ==
    \E o1 \in Outcomes, o2 \in Outcomes, o3 \in Outcomes :
        /\ o1.result.status = "uploaded"
        /\ o2.request = o1.request /\ o2.index > o1.index
        /\ o3.request # o1.request
        /\ o2.result.status = "skipped" /\ o3.result.status = "skipped"
        /\ o2.result.thermal_scan_id = o1.result.thermal_scan_id
        /\ o3.result.thermal_scan_id = o1.result.thermal_scan_id
        /\ o2.file.content = o1.file.content /\ o3.file.content = o1.file.content
        /\ Cardinality(scans_of(o1.file.content)) = 1

\* C3: when two concurrent requests submit identical content, at most one row
\* with that hash is created, and the request whose INSERT was refused reports
\* the file as a duplicate: outcome 'skipped' with thermal_scan_id the id of
\* the winner's row, not 'failed'.
C3_LosingWriterSeesDuplicate ==
    /\ C1_UniqueContentHash
    /\ \A o \in Outcomes :
          o.result.lost_to # None =>
             /\ o.result.status = "skipped"
             /\ o.result.thermal_scan_id = o.result.lost_to

(***************************************************************************)
(* Properties of the model integrity gate (checked under SpecLoader)        *)
(***************************************************************************)
\* the calls that load: load_yolo_nas_model and initialize_all_models
LoadOps == {"load", "initialize_all"}

\* the checksum of the model file as it is on disk (the file exists)
file_checksum == sha256_hexdigest(model_file[1])

\* C4: initialize_all_models returns True only if the configured artifact
\* passed integrity verification and was itself loaded; an integrity failure
\* or a failure to load the artifact makes it raise.
C4_InitializeAllFailClosed ==
    last.op = "initialize_all" =>
        /\ last.result = "True" =>
              /\ last.verify = "True"
              /\ last.local = "loaded"
              /\ \A n \in model_config :
                    /\ loaded_models[n] # None
                    /\ loaded_models[n][1].source = "local_checkpoint"
        /\ (last.verify # "True" \/ last.local # "loaded") =>
              last.result \in {"ModelIntegrityError", "ModelLoadingError"}

\* C5: a verify_model_integrity or initialize_all_models call on a readable
\* model file: with no checksum pinned, the verify step pins the checksum it
\* computed and succeeds; with the file's checksum equal to the pinned one, it
\* succeeds and the pin stays; with the file's checksum different from the
\* pinned one, it raises ModelIntegrityError, the call raises it too (so
\* initialize_all_models aborts), and neither the pin nor the loaded set
\* changes.
C5_PinThenEnforce ==
    [][(/\ last'.op \in {"verify", "initialize_all"}
        /\ last'.name \in model_config
        /\ model_file # None
        /\ last'.readable) =>
          LET n == last'.name
          IN  /\ expected_sha256[n] = None =>
                    /\ last'.verify = "True"
                    /\ last'.op = "verify" => last'.result = "True"
                    /\ expected_sha256'[n] = Some(file_checksum)
              /\ expected_sha256[n] = Some(file_checksum) =>
                    /\ last'.verify = "True"
                    /\ last'.op = "verify" => last'.result = "True"
                    /\ expected_sha256' = expected_sha256
              /\ expected_sha256[n] \notin {None, Some(file_checksum)} =>
                    /\ last'.verify = "ModelIntegrityError"
                    /\ last'.result = "ModelIntegrityError"
                    /\ expected_sha256' = expected_sha256
                    /\ loaded_models' = loaded_models
      ]_vars

\* C5 witness: a checksum was pinned, the file was then modified, and
\* initialize_all_models has aborted with ModelIntegrityError.
C5_Witness ==
    /\ last.op = "initialize_all"
    /\ last.result = "ModelIntegrityError"
    /\ last.readable
    /\ model_file # None
    /\ expected_sha256["yolo_nas_s"] \notin {None, Some(file_checksum)}

\* C6: within one process, the pinned checksum of an artifact is written at
\* most once: it changes only from unpinned to the checksum of the file, in a
\* call whose verify step succeeds, and no later call (verify, load, status,
\* initialize_all, failing or not) changes it.
C6_PinWrittenOnce ==
    [][/\ pin_writes' <= 1
       /\ \A n \in model_config :
             (restarts' = restarts /\ expected_sha256'[n] # expected_sha256[n]) =>
                /\ expected_sha256[n] = None
                /\ model_file # None
                /\ expected_sha256'[n] = Some(file_checksum)
                /\ last'.verify = "True"
      ]_vars

\* C6 witness: with a checksum pinned and the file modified since, a status
\* call has found the mismatch and the pin is still the one write.
C6_Witness ==
    /\ last.op = "status"
    /\ last.file_exists /\ last.readable /\ ~last.integrity_verified
    /\ pin_writes = 1
    /\ model_file # None
    /\ expected_sha256["yolo_nas_s"] \notin {None, Some(file_checksum)}

\* C7: while a checksum persisted as metadata differs from the checksum of the
\* model file, a verify, load or initialize_all call refuses the artifact with
\* ModelIntegrityError and pins nothing, also in a process started after the
\* one that persisted it.
C7_PersistedPinEnforced ==
    [][(/\ last'.op \in LoadOps \cup {"verify"}
        /\ last'.name \in model_config
        /\ last'.readable
        /\ model_file # None
        /\ metadata_file # None
        /\ metadata_file[1].checksum # file_checksum) =>
          /\ last'.result = "ModelIntegrityError"
          /\ expected_sha256' = expected_sha256
          /\ metadata_file' = metadata_file
      ]_vars

\* C8: an artifact enters loaded_models only in a load call whose verify step
\* succeeded; when the verify step of a load raises, nothing is deserialized
\* or fetched, loaded_models is unchanged and the call raises
\* ModelIntegrityError.
C8_LoadedOnlyAfterVerify ==
    [][\A n \in model_config :
          /\ (loaded_models'[n] # loaded_models[n] /\ loaded_models'[n] # None) =>
                /\ last'.op \in LoadOps
                /\ last'.name = n
                /\ last'.verify = "True"
          /\ (last'.op \in LoadOps /\ last'.verify # "True") =>
                /\ loaded_models' = loaded_models
                /\ last'.local = "n/a"
                /\ ~last'.fetched
                /\ last'.result = "ModelIntegrityError"
      ]_vars

\* C8 witness: a load call on a modified file has raised ModelIntegrityError
\* and the artifact is not loaded.
C8_Witness ==
    /\ last.op = "load"
    /\ last.verify = "ModelIntegrityError"
    /\ last.file_exists /\ last.readable
    /\ loaded_models["yolo_nas_s"] = None
    /\ expected_sha256["yolo_nas_s"] # None

\* C9: when the local checkpoint fails to deserialize after the verify step
\* passed, the load raises ModelLoadingError and no fetched model takes the
\* artifact's place: every loaded model is the local checkpoint.
C9_NoSilentSubstitute ==
    /\ (last.op \in LoadOps /\ last.verify = "True" /\ last.local = "failed") =>
          /\ last.result = "ModelLoadingError"
          /\ ~last.fetched
    /\ \A n \in model_config :
          loaded_models[n] # None => loaded_models[n][1].source = "local_checkpoint"

\* C10: a get_model_status call leaves the pinned checksum of every artifact
\* (unpinned included) and the persisted metadata as they were.
C10_StatusReadOnly ==
    [][last'.op = "status" =>
          /\ expected_sha256' = expected_sha256
          /\ metadata_file' = metadata_file
      ]_vars

(***************************************************************************)
(* Properties of one ingest call (checked under Spec)                      *)
(***************************************************************************)
\* request r passes the request-shape checks in this step
enters(r) == pc[r] = "idle" /\ pc'[r] # "idle"

\* C11: an ingest request with an empty file list or with more files than the
\* maximum is answered 400 before any processing: no batch id is allocated,
\* no file is read or stored, no row is created, no analysis task is
\* scheduled, and the request does nothing afterwards; a request of one file
\* up to exactly the maximum is accepted and gets a batch id.
C11_BadRequestRejected ==
    /\ [](\A r \in Requests :
            pc[r] = "rejected" =>
               /\ req[r].response = Some([status_code |-> 400])
               /\ req[r].batch_id = None
               /\ req[r].files = <<>> /\ req[r].upload_results = <<>>
               /\ \A s \in scans : s.uploaded_by # req[r].user)
    /\ [][\A r \in Requests :
            enters(r) =>
               LET nfiles == req'[r].nfiles
               IN  /\ (nfiles = 0 \/ nfiles > MAX_FILES_PER_BATCH) =>
                         /\ pc'[r] = "rejected"
                         /\ next_batch' = next_batch
                         /\ scans' = scans
                         /\ stored_files' = stored_files
                         /\ tasks' = tasks
                   /\ nfiles \in 1..MAX_FILES_PER_BATCH =>
                         /\ pc'[r] = "loop"
                         /\ req'[r].response = None
                         /\ req'[r].batch_id = Some(next_batch)
                         /\ next_batch' = next_batch + 1
        ]_vars

\* C11 witness: a request over the maximum has been rejected and a request of
\* exactly the maximum number of files has been accepted.
C11_Witness ==
    \E r1 \in Requests, r2 \in Requests :
        /\ pc[r1] = "rejected" /\ req[r1].nfiles = MAX_FILES_PER_BATCH + 1
        /\ pc[r2] = "loop" /\ req[r2].nfiles = MAX_FILES_PER_BATCH
        /\ req[r2].batch_id # None

\* request r records one more outcome in this step
records_outcome(r) == Len(req'[r].upload_results) = Len(req[r].upload_results) + 1

invalid_files(r) == {i \in 1..Len(req[r].files) : ~req[r].files[i].valid}

\* the outcomes of request r with this status
outcomes_with(r, st) == {o \in Outcomes : o.request = r /\ o.result.status = st}

\* C13: when an accepted call of N files, k of which fail validation, has
\* returned, its summary has total_files = N and failed_uploads >= k, and the
\* call has committed at most N - k rows: its 'uploaded' outcomes, and so the
\* rows of its batch, number at most N - k.
C13_SummaryCountsValidationFailures ==
    \A r \in Requests :
        pc[r] = "done" =>
           LET N == Len(req[r].files)
               k == Cardinality(invalid_files(r))
               summary == req[r].response[1]
           IN  /\ N = req[r].nfiles
               /\ summary.total_files = N
               /\ summary.failed_uploads >= k
               /\ Cardinality(outcomes_with(r, "uploaded")) <= N - k
               /\ summary.successful_uploads <= N - k
               /\ Cardinality(batch_scans(summary.batch_id)) <= N - k

\* C13 witness: a call of three files has returned; one file failed
\* validation, one failed through an exception and one was committed, so
\* failed_uploads exceeds k and N - k exceeds the rows committed.
C13_Witness ==
    \E r \in Requests :
        /\ pc[r] = "done"
        /\ req[r].nfiles = 3
        /\ Cardinality(invalid_files(r)) = 1
        /\ req[r].response[1].failed_uploads = 2
        /\ Cardinality(batch_scans(req[r].response[1].batch_id)) = 1

\* the statuses of the outcomes a request has recorded, in order
statuses(r) == [i \in 1..Len(req[r].upload_results) |-> req[r].upload_results[i].status]

\* C14: a call schedules an analysis task for its batch if and only if one of
\* its files had outcome 'uploaded', and then exactly one, when it returns and
\* not before; the returned processing_status is 'queued' exactly when the
\* task was scheduled and 'idle' otherwise; no task exists for a batch id no
\* call holds.  A three-file call with outcomes uploaded, skipped, failed
\* returns total 3, successful 1, failed 1, queued.
C14_TaskIffUploaded ==
    /\ \A b \in BatchIds :
          (\A r \in Requests : req[r].batch_id # Some(b)) => tasks[b] = <<>>
    /\ \A r \in Requests :
          req[r].batch_id # None =>
             LET b == req[r].batch_id[1]
                 uploaded == outcomes_with(r, "uploaded") # {}
             IN  /\ pc[r] # "done" => tasks[b] = <<>>
                 /\ pc[r] = "done" =>
                       /\ tasks[b] = IF uploaded THEN <<req[r].user>> ELSE <<>>
                       /\ req[r].response[1].processing_status =
                             IF Len(tasks[b]) = 1 THEN "queued" ELSE "idle"
                       /\ statuses(r) = <<"uploaded", "skipped", "failed">> =>
                             /\ req[r].response[1].total_files = 3
                             /\ req[r].response[1].successful_uploads = 1
                             /\ req[r].response[1].failed_uploads = 1
                             /\ req[r].response[1].processing_status = "queued"

\* C14 witness: a call of a new file, a duplicate of it and a file that fails
\* validation has returned total 3, successful 1, failed 1, 'queued', with one
\* task scheduled for its batch.
C14_Witness ==
    \E r \in Requests :
        /\ pc[r] = "done"
        /\ statuses(r) = <<"uploaded", "skipped", "failed">>
        /\ req[r].files[2].content = req[r].files[1].content
        /\ ~req[r].files[3].valid
        /\ req[r].response[1].total_files = 3
        /\ req[r].response[1].successful_uploads = 1
        /\ req[r].response[1].failed_uploads = 1
        /\ req[r].response[1].processing_status = "queued"
        /\ tasks[req[r].batch_id[1]] = <<req[r].user>>

(***************************************************************************)
(* Properties of the batch state tracker (checked under SpecTracker)       *)
(***************************************************************************)
\* the handler op has just answered with this HTTP status
answers(op, status_code) ==
    /\ reply' # reply
    /\ reply'.op = op
    /\ reply'.status_code = status_code

\* C15: when get_batch_status answers for a batch (which then has rows), the
\* overall status is 'failed' if all rows are failed, else 'completed' if all
\* are completed, else 'processing' if any is processing, else 'pending' if
\* any is pending, else 'unknown'; so with at least one row 'processing' it is
\* 'processing' whatever the other rows are.
C15_StatusPrecedence ==
    [][answers("get_batch_status", 200) =>
          LET found == batch_scans(reply'.batch_id)
              all(st) == \A s \in found : s.processing_status = st
              any(st) == \E s \in found : s.processing_status = st
              status == reply'.body[1].status
          IN  /\ found # {}
              /\ status = IF all("failed") THEN "failed"
                          ELSE IF all("completed") THEN "completed"
                          ELSE IF any("processing") THEN "processing"
                          ELSE IF any("pending") THEN "pending"
                          ELSE "unknown"
              /\ any("processing") => status = "processing"
      ]_vars

\* C15 witness: get_batch_status has answered 'processing' for a batch with
\* one row processing, one completed and one failed.
C15_Witness ==
    /\ reply.op = "get_batch_status" /\ reply.status_code = 200
    /\ reply.body[1].status = "processing"
    /\ \A st \in {"processing", "completed", "failed"} :
          with_status(batch_scans(reply.batch_id), st) # {}

\* the handlers that read a batch
ReadOps == {"get_batch_status", "get_batch_files"}

\* C16: when get_batch_status or get_batch_files is called on a batch that has
\* rows, a caller with can_view_all_data gets the result; a caller without it
\* gets the result if a row of the batch was uploaded by them, and otherwise
\* 403 with no body: no counts, no status, no file entry.
C16_OwnerOrViewAll ==
    [][(reply' # reply /\ reply'.op \in ReadOps /\ batch_scans(reply'.batch_id) # {}) =>
          LET found == batch_scans(reply'.batch_id)
              user == reply'.user[1]
              uploader == \E s \in found : s.uploaded_by = user.id
              result == IF reply'.op = "get_batch_status"
                        THEN Some(BatchStatus(reply'.batch_id, found))
                        ELSE Some(batch_files(found))
          IN  IF user.can_view_all_data \/ uploader
              THEN reply'.status_code = 200 /\ reply'.body = result
              ELSE reply'.status_code = 403 /\ reply'.body = None
      ]_vars

\* C16 witness: get_batch_files has answered 403 to a caller without blanket
\* view rights for a batch whose rows, more than one, were all uploaded by
\* someone else.
C16_Witness ==
    /\ reply.op = "get_batch_files" /\ reply.status_code = 403
    /\ ~reply.user[1].can_view_all_data
    /\ Cardinality(batch_scans(reply.batch_id)) > 1
    /\ \A s \in batch_scans(reply.batch_id) : s.uploaded_by # reply.user[1].id

\* the handlers of the tracker
TrackerOps == ReadOps \cup {"delete_batch"}

\* the rows carrying this batch id
records_of(batch_id) == {s \in scans : s.batch_id = batch_id}

\* C17: when get_batch_status, get_batch_files or delete_batch is called with
\* a batch id that no row carries, the answer is 404 with no body, whoever
\* the caller is and whatever rows other batches have.
C17_EmptyBatchNotFound ==
    [][(reply' # reply /\ reply'.op \in TrackerOps /\ records_of(reply'.batch_id) = {}) =>
          /\ reply'.status_code = 404
          /\ reply'.body = None
      ]_vars

\* C17 witness: a caller with blanket view rights has been answered 404 by
\* get_batch_status for a batch id without rows while the other batch has
\* rows.
C17_Witness ==
    /\ reply.op = "get_batch_status" /\ reply.status_code = 404
    /\ reply.user[1].can_view_all_data
    /\ records_of(reply.batch_id) = {}
    /\ scans # {}

\* the stored files of this batch
files_of(batch_id) == {f \in stored_files : f.batch_id = batch_id}

\* C18: a delete_batch call on a batch that has rows, when it ends normally
\* (it answers 200, or else 500), leaves no row and no stored file of that
\* batch, while the rows (and files) of every other batch stay exactly as
\* they were, also when it ends with an error; a call on a batch id without
\* rows, never used or already deleted, answers 404 and changes no row and no
\* file.
C18_DeleteFrame ==
    [][(reply' # reply /\ reply'.op = "delete_batch") =>
          LET b == reply'.batch_id
          IN  IF records_of(b) # {}
              THEN /\ reply'.status_code \in {200, 500}
                   /\ {s \in scans' : s.batch_id # b} = {s \in scans : s.batch_id # b}
                   /\ {f \in stored_files' : f.batch_id # b} = {f \in stored_files : f.batch_id # b}
                   /\ reply'.status_code = 200 =>
                         /\ scans' = {s \in scans : s.batch_id # b}
                         /\ stored_files' = {f \in stored_files : f.batch_id # b}
              ELSE /\ reply'.status_code = 404
                   /\ scans' = scans
                   /\ stored_files' = stored_files
      ]_vars

\* C18 witness: delete_batch has removed a batch; none of its rows or files is
\* left, and the other batch still has rows and their files.
C18_Witness ==
    /\ reply.op = "delete_batch" /\ reply.status_code = 200
    /\ records_of(reply.batch_id) = {} /\ files_of(reply.batch_id) = {}
    /\ \E other \in BatchIds :
          /\ other # reply.batch_id
          /\ Cardinality(records_of(other)) > 1
          /\ Cardinality(files_of(other)) > Cardinality(records_of(other))

(***************************************************************************)
(* Sequence numbers (checked under Spec)                                   *)
(***************************************************************************)
\* the row an 'uploaded' outcome names, while it is committed
row_of(o) == {s \in scans : Some(s.id) = o.result.thermal_scan_id}

\* C19: the sequence numbers of a call are given to the files the loop
\* iterates, failed and skipped ones included: the i-th file iterated has
\* number i, so after M files the numbers given are 1..M without a gap, and a
\* row committed for the i-th file carries batch_sequence i; the rows of one
\* call therefore carry numbers that increase in submission order.
C19_SequenceOverIteratedFiles ==
    \A r \in Requests :
        req[r].batch_id # None =>
           LET M == Len(req[r].upload_results)
           IN  /\ req[r].sequence = M + 1
               /\ M <= req[r].nfiles
               /\ pc[r] = "done" => M = req[r].nfiles
               /\ \A o \in outcomes_with(r, "uploaded") : \A s \in row_of(o) :
                     /\ s.batch_sequence = o.index
                     /\ s.batch_id = req[r].batch_id[1]
               /\ \A o1 \in outcomes_with(r, "uploaded"), o2 \in outcomes_with(r, "uploaded") :
                     \A s1 \in row_of(o1), s2 \in row_of(o2) :
                        o1.index < o2.index <=> s1.batch_sequence < s2.batch_sequence

\* C19 witness: a call has iterated three files; the first and the third were
\* committed with sequence numbers 1 and 3, the second failed and number 2 is
\* held by no row.
C19_Witness ==
    \E r \in Requests :
        /\ pc[r] = "done"
        /\ statuses(r) = <<"uploaded", "failed", "uploaded">>
        /\ {s.batch_sequence : s \in batch_scans(req[r].batch_id[1])} = {1, 3}

\* C20: in every reachable state, two different rows of one batch have
\* different batch_sequence values, and every batch_sequence is at least 1.
C20_SequenceUniqueInBatch ==
    /\ \A s \in scans : s.batch_sequence >= 1
    /\ \A s \in scans, t \in scans :
          (s.batch_id = t.batch_id /\ s.batch_sequence = t.batch_sequence) => s = t

\* C20 witness: a call has returned and its batch holds two rows, with
\* different sequence numbers.
C20_Witness ==
    \E r \in Requests, s \in scans, t \in scans :
        /\ pc[r] = "done"
        /\ s.batch_id = req[r].batch_id[1] /\ t.batch_id = s.batch_id
        /\ s # t
        /\ s.batch_sequence < t.batch_sequence

(***************************************************************************)
(* Batch identity and analysis tasks (checked under Spec)                  *)
(***************************************************************************)
\* the requests that hold a batch id
accepted == {r \in Requests : req[r].batch_id # None}

\* C21: a call gets its batch id in the step that accepts it, before any file
\* is read, and keeps it from then on; every row the call has committed, the
\* analysis task it schedules and the summary it returns carry that id, and
\* create_batch_id has been called once per accepted call.
C21_BatchIdAllocatedOnce ==
    /\ [](/\ next_batch = 1 + Cardinality(accepted)
          /\ \A r \in accepted :
                LET b == req[r].batch_id[1]
                IN  /\ \A o \in outcomes_with(r, "uploaded") : \A s \in row_of(o) : s.batch_id = b
                    /\ \A s \in scans : s.uploaded_by = req[r].user => s.batch_id = b
                    /\ \A c \in BatchIds : (c # b /\ tasks[c] # <<>>) => tasks[c] # <<req[r].user>>
                    /\ req[r].response # None => req[r].response[1].batch_id = b)
    /\ [][\A r \in Requests :
            /\ req[r].batch_id # None => req'[r].batch_id = req[r].batch_id
            /\ (req[r].batch_id = None /\ req'[r].batch_id # None) =>
                  /\ enters(r)
                  /\ req'[r].files = <<>> /\ req'[r].upload_results = <<>>
        ]_vars

\* C21 witness: a call has returned with a task scheduled and a row committed
\* for its first and for a later file, all under the batch id of its summary,
\* and the other call holds another batch id.
C21_Witness ==
    \E r \in Requests, r2 \in Requests :
        /\ pc[r] = "done"
        /\ req[r2].batch_id # None /\ req[r2].batch_id # req[r].batch_id
        /\ tasks[req[r].response[1].batch_id] = <<req[r].user>>
        /\ \E s \in scans, t \in scans :
              /\ s.batch_sequence = 1 /\ t.batch_sequence > 1
              /\ s.batch_id = req[r].response[1].batch_id
              /\ t.batch_id = req[r].response[1].batch_id

(***************************************************************************)
(* The file listing (checked under SpecTracker)                            *)
(***************************************************************************)
\* C22: when get_batch_files answers with a list, the list has exactly one
\* entry for every row of the batch and none for any other row, each entry
\* with the status of its row, and the entries follow each other by
\* ascending batch_sequence of their rows.
C22_FilesOnePerRecordInOrder ==
    [][answers("get_batch_files", 200) =>
          LET found == records_of(reply'.batch_id)
              entries == reply'.body[1]
              row(i) == CHOOSE s \in scans : s.id = entries[i].thermal_scan_id
          IN  /\ Len(entries) = Cardinality(found)
              /\ \A s \in found : \E i \in 1..Len(entries) : entries[i].thermal_scan_id = s.id
              /\ \A i \in 1..Len(entries) :
                    /\ \E s \in found : s.id = entries[i].thermal_scan_id
                    /\ entries[i].status = row(i).processing_status
              /\ \A i \in 1..Len(entries), j \in 1..Len(entries) :
                    i < j => row(i).batch_sequence < row(j).batch_sequence
      ]_vars

\* C22 witness: get_batch_files has listed a batch of at least two rows while
\* the other batch has a row with a sequence number between theirs.
C22_Witness ==
    /\ reply.op = "get_batch_files" /\ reply.status_code = 200
    /\ Len(reply.body[1]) >= 2
    /\ \E s \in records_of(reply.batch_id), t \in records_of(reply.batch_id), u \in scans :
          /\ u.batch_id # reply.batch_id
          /\ s.batch_sequence < u.batch_sequence /\ u.batch_sequence < t.batch_sequence

(***************************************************************************)
(* The gate under concurrent calls (checked under SpecLoaderThreads)       *)
(***************************************************************************)
\* C23: when a verify or load call was made while a load of the artifact was
\* in flight, the two calls together have written the pin at most once,
\* written the metadata file at most once, downloaded at most once and
\* loaded the artifact at most once.
C23_ConcurrentCallsEffectiveOnce ==
    (\E t \in Threads : calls[t].overlaps) =>
        /\ pin_writes <= 1
        /\ effects.metadata_writes <= 1
        /\ effects.downloads <= 1
        /\ effects.loads <= 1

\* C24: in every reachable state, whatever the interleaving of ingest calls
\* and deletions, the tasks scheduled for the batch of a committed row number
\* at most one, and that one was scheduled by the call that created the row.
C24_OneTaskPerRecord ==
    \A s \in scans :
        /\ Len(tasks[s.batch_id]) <= 1
        /\ \A i \in 1..Len(tasks[s.batch_id]) :
              /\ tasks[s.batch_id][i] = s.uploaded_by
              /\ \E r \in Requests :
                    /\ pc[r] = "done" /\ req[r].batch_id = Some(s.batch_id)
                    /\ \E o \in outcomes_with(r, "uploaded") : s \in row_of(o)

\* C24 witness: a call has committed two rows and scheduled the one task of
\* their batch, and the other call has returned after skipping a duplicate of
\* one of them.
C24_Witness ==
    \E s \in scans, t \in scans, r2 \in Requests :
        /\ s # t /\ s.batch_id = t.batch_id
        /\ tasks[s.batch_id] = <<s.uploaded_by>>
        /\ pc[r2] = "done" /\ req[r2].user # s.uploaded_by
        /\ \E o \in outcomes_with(r2, "skipped") : o.result.thermal_scan_id = Some(s.id)

\* C25: a step that processes a valid file whose hash a committed row holds
\* records 'skipped' and leaves the stored files, the table (no row added, no
\* attribute of any row changed) and the tasks as they were; a task is only
\* ever added for the batch of a call that uploaded a file itself; and a call
\* that has returned with every file skipped has scheduled no task.
C25_SkippedDuplicateFrame ==
    /\ [][\A r \in Requests :
            reads_file(r) =>
               LET file == req'[r].files[Len(req'[r].files)]
               IN  (file.valid /\ scans_of(file.content) # {}) =>
                      /\ records_outcome(r) /\ new_result(r).status = "skipped"
                      /\ stored_files' = stored_files
                      /\ scans' = scans
                      /\ tasks' = tasks
        ]_vars
    /\ [][\A b \in BatchIds :
            tasks'[b] # tasks[b] =>
               \E r \in Requests :
                  /\ req[r].batch_id = Some(b)
                  /\ outcomes_with(r, "uploaded") # {}
        ]_vars
    /\ [](\A r \in Requests :
            (pc[r] = "done" /\ \A o \in Outcomes : o.request = r => o.result.status = "skipped") =>
               /\ tasks[req[r].batch_id[1]] = <<>>
               /\ req[r].response[1].processing_status = "idle"
               /\ batch_scans(req[r].batch_id[1]) = {})

\* C25 witness: a call of two files, both duplicates of rows of the other
\* call's batch, has returned 'idle'; those rows are pending in their batch
\* with their sequence numbers, and the only task is the other call's.
C25_Witness ==
    \E r \in Requests, r2 \in Requests :
        /\ pc[r] = "done" /\ pc[r2] = "done"
        /\ statuses(r) = <<"skipped", "skipped">>
        /\ req[r].response[1].processing_status = "idle"
        /\ tasks[req[r].batch_id[1]] = <<>>
        /\ tasks[req[r2].batch_id[1]] = <<req[r2].user>>
        /\ \A o \in outcomes_with(r, "skipped") :
              \E s \in batch_scans(req[r2].batch_id[1]) : o.result.thermal_scan_id = Some(s.id)

C27_FetchedModelReverified ==
    (last.op \in LoadOps /\ last.fetched) =>
        LET model == loaded_models["yolo_nas_s"]
        IN  /\ model # None
            /\ model_file = Some(model[1].bytes)
            /\ expected_sha256["yolo_nas_s"] = Some(sha256_hexdigest(model[1].bytes))

\* C28: a verify_model_integrity call returns True or raises
\* ModelIntegrityError and does nothing else; called with an unknown model
\* name, or for an artifact whose file is missing, or whose file cannot be
\* read, it raises ModelIntegrityError, and with an unknown name or a missing
\* file it leaves the pinned checksums, the metadata file and loaded_models as
\* they were.
C28_VerifyFailsAsIntegrityError ==
    [][last'.op = "verify" =>
          /\ last'.result \in {"True", "ModelIntegrityError"}
          /\ loaded_models' = loaded_models
          /\ (last'.name \notin model_config \/ model_file = None) =>
                /\ last'.result = "ModelIntegrityError"
                /\ expected_sha256' = expected_sha256
                /\ metadata_file' = metadata_file
          /\ ~last'.readable => last'.result = "ModelIntegrityError"
      ]_vars

\* C28 witness: after the artifact was pinned and loaded and its file then
\* removed, verify has raised ModelIntegrityError for the missing file; the
\* pin, the metadata file and the loaded model are in place.
C28_Witness ==
    /\ last.op = "verify" /\ last.name = "yolo_nas_s"
    /\ ~last.file_exists
    /\ last.result = "ModelIntegrityError"
    /\ expected_sha256["yolo_nas_s"] # None
    /\ metadata_file # None
    /\ loaded_models["yolo_nas_s"] # None

(***************************************************************************)
(* Deletion (checked under SpecDelete)                                     *)
(***************************************************************************)
\* C29: when a delete_batch call on a batch with rows has ended, normally or
\* with an error, either no row and no stored file of the batch is left, or
\* the rows and the stored files are all as they were before the call.
C29_DeleteAtomic ==
    [][(reply' # reply /\ reply'.op = "delete_batch" /\ records_of(reply'.batch_id) # {}) =>
          LET b == reply'.batch_id
          IN  \/ /\ {s \in scans' : s.batch_id = b} = {}
                 /\ {f \in stored_files' : f.batch_id = b} = {}
              \/ /\ scans' = scans
                 /\ stored_files' = stored_files
      ]_vars

(***************************************************************************)
(* Substation matching (checked under SpecIngestSubstations)               *)
(***************************************************************************)
\* the substation with this id is active in the substations table
is_active_now(id) == \E s \in substations : s.id = id /\ s.is_active

\* C30: whenever an upload call matches a file to a substation, the
\* reference it is about to store on the file's record, that substation is
\* active in the substations table at the moment of the match, also when
\* substations are deactivated while the call is in progress.
C30_MatchedSubstationActive ==
    [][\A r \in Requests :
          (reads_file(r) /\ pc'[r] = "commit" /\ req'[r].substation_id # None) =>
              is_active_now(req'[r].substation_id[1])
      ]_vars

\* the coordinates extract_image_metadata has returned for the file the call
\* is about to store
has_coordinates(rq) ==
    /\ rq.metadata # None
    /\ rq.metadata[1].latitude # None
    /\ rq.metadata[1].longitude # None

\* C31: for every accepted file whose metadata contains a latitude and a
\* longitude, whatever their values, 0 included, the call stores what the
\* Substation Matcher returns for that position and the list of substations
\* of the call; without coordinates it stores no substation.
C31_MatcherConsultedWhenGpsPresent ==
    [][\A r \in Requests :
          (reads_file(r) /\ pc'[r] = "commit") =>
              req'[r].substation_id =
                  IF has_coordinates(req'[r])
                  THEN find_matching_substation(req'[r].metadata[1].latitude[1],
                                                req'[r].metadata[1].longitude[1],
                                                req[r].substations)
                  ELSE None
      ]_vars

C33_UnknownIffMixedTerminal ==
    [][answers("get_batch_status", 200) =>
          LET found == records_of(reply'.batch_id)
          IN  reply'.body[1].status = "unknown" <=>
                 /\ \A s \in found : s.processing_status \in {"completed", "failed"}
                 /\ \E s \in found : s.processing_status = "completed"
                 /\ \E s \in found : s.processing_status = "failed"
      ]_vars

\* C33 witness: get_batch_status has answered 'unknown' for a batch of one
\* completed and one failed row.
C33_Witness ==
    /\ reply.op = "get_batch_status" /\ reply.status_code = 200
    /\ reply.body[1].status = "unknown"
    /\ Cardinality(records_of(reply.batch_id)) = 2
    /\ \E s, t \in records_of(reply.batch_id) :
          s.processing_status = "completed" /\ t.processing_status = "failed"

(***************************************************************************)
(* Existence before access (checked under SpecTracker)                     *)
(***************************************************************************)
\* C34: get_batch_status and get_batch_files check existence before access:
\* a caller without blanket view rights gets 404 exactly when the batch id
\* has no rows, and 403 when it has rows none of which they uploaded; what
\* such a caller is answered tells whether the batch id exists.
C34_ExistenceBeforeAccess ==
    [][(reply' # reply /\ reply'.op \in ReadOps /\ ~reply'.user[1].can_view_all_data) =>
          LET found == records_of(reply'.batch_id)
              foreign == \A s \in found : s.uploaded_by # reply'.user[1].id
          IN  /\ reply'.status_code = 404 <=> found = {}
              /\ (found # {} /\ foreign) => reply'.status_code = 403
              /\ (found = {} /\ foreign) => reply'.status_code # 403
      ]_vars

\* C34 witness: a caller without blanket view rights has been answered 403 by
\* get_batch_status for a batch of another user while another batch id has
\* no rows.
C34_Witness ==
    /\ reply.op = "get_batch_status" /\ reply.status_code = 403
    /\ ~reply.user[1].can_view_all_data
    /\ records_of(reply.batch_id) # {}
    /\ \E b \in BatchIds : b # reply.batch_id /\ records_of(b) = {}

(***************************************************************************)
(* Re-upload after deletion (checked under Spec)                           *)
(***************************************************************************)
\* the outcomes 'uploaded' recorded for this content whose row is still in
\* the table, and those whose row has been deleted
uploads_kept(content) ==
    {o \in Outcomes : /\ o.file.content = content /\ o.result.status = "uploaded"
                      /\ \E s \in scans : Some(s.id) = o.result.thermal_scan_id}

uploads_deleted(content) ==
    {o \in Outcomes : /\ o.file.content = content /\ o.result.status = "uploaded"
                      /\ ~\E s \in scans : Some(s.id) = o.result.thermal_scan_id}

\* C35: a valid file whose bytes were uploaded before is 'skipped' as long as
\* the row of that upload exists; once that row has been deleted and no row
\* holds the hash, the file is not skipped: it goes on to storage and, when
\* its row is committed, its outcome is 'uploaded' with a new row in the
\* batch of the new call.
C35_ReuploadAfterDelete ==
    /\ [][\A r \in Requests :
            reads_file(r) =>
               LET file == req'[r].files[Len(req'[r].files)]
               IN  /\ (file.valid /\ uploads_kept(file.content) # {}) =>
                         records_outcome(r) /\ new_result(r).status = "skipped"
                   /\ (file.valid /\ uploads_deleted(file.content) # {}
                                  /\ scans_of(file.content) = {}) =>
                         \/ pc'[r] = "commit"
                         \/ records_outcome(r) /\ new_result(r).cause = "storage"
        ]_vars
    /\ [][\A r \in Requests :
            (pc[r] = "commit" /\ pc'[r] = "loop") =>
               LET content == req[r].file_hash[1][2]
               IN  (uploads_deleted(content) # {} /\ scans_of(content) = {}) =>
                      /\ new_result(r).status = "uploaded"
                      /\ \E s \in scans' \ scans :
                            /\ s.file_hash = req[r].file_hash[1]
                            /\ s.batch_id = req[r].batch_id[1]
                            /\ Some(s.id) = new_result(r).thermal_scan_id
        ]_vars

\* C35 witness: a content uploaded by one call, whose batch was then deleted,
\* has been uploaded again by the other call and has its row in that call's
\* batch.
C35_Witness ==
    \E o1 \in Outcomes, o2 \in Outcomes :
        /\ o1.request # o2.request
        /\ o1.file.content = o2.file.content
        /\ o1 \in uploads_deleted(o1.file.content)
        /\ o2 \in uploads_kept(o2.file.content)
        /\ records_of(req[o1.request].batch_id[1]) = {}
        /\ \E s \in records_of(req[o2.request].batch_id[1]) :
              Some(s.id) = o2.result.thermal_scan_id

(***************************************************************************)
(* Outcomes and counters (checked under Spec)                              *)
(***************************************************************************)
\* C36: in an accepted call every file read so far has exactly one outcome,
\* 'uploaded', 'skipped' or 'failed' (the file being stored has none yet);
\* the counters are the numbers of 'uploaded' and of 'failed' outcomes, and
\* skipped files are in neither; so when the call has returned,
\* total_files = successful_uploads + failed_uploads + skipped files.
C36_OneOutcomePerFile ==
    [](\A r \in Requests :
        pc[r] \in {"loop", "commit", "done"} =>
           LET uploaded == Cardinality(outcomes_with(r, "uploaded"))
               failed == Cardinality(outcomes_with(r, "failed"))
               skipped == Cardinality(outcomes_with(r, "skipped"))
           IN  /\ Len(req[r].upload_results) = Len(req[r].files) - (IF pc[r] = "commit" THEN 1 ELSE 0)
               /\ \A i \in 1..Len(req[r].upload_results) :
                     req[r].upload_results[i].status \in {"uploaded", "skipped", "failed"}
               /\ req[r].successful_uploads = uploaded
               /\ req[r].failed_uploads = failed
               /\ uploaded + failed + skipped = Len(req[r].upload_results)
               /\ pc[r] = "done" =>
                     LET summary == req[r].response[1]
                     IN  /\ summary.successful_uploads = uploaded
                         /\ summary.failed_uploads = failed
                         /\ summary.total_files = Len(req[r].files)
                         /\ summary.total_files =
                               summary.successful_uploads + summary.failed_uploads + skipped)

\* C36 witness: a call of three files has returned with one file uploaded,
\* one skipped and one failed.
C36_Witness ==
    \E r \in Requests :
        /\ pc[r] = "done"
        /\ req[r].response[1].total_files = 3
        /\ \A st \in {"uploaded", "skipped", "failed"} :
              Cardinality(outcomes_with(r, st)) = 1

(***************************************************************************)
(* Records and outcomes (checked under SpecIngestThenStatus)               *)
(***************************************************************************)
\* the row the call of request r has committed for the i-th file of its list
record_of_file(r, i) ==
    {s \in scans : Some(s.batch_id) = req[r].batch_id /\ s.batch_sequence = i}

task_step(b) ==
    \E s \in scans, t \in scans' :
        /\ s.batch_id = b /\ t.id = s.id
        /\ t.processing_status # s.processing_status

\* C38: whenever the analysis task a call has scheduled works on the
\* database, the session it works through, the one of the call's request,
\* has not been committed and closed by get_db.
C38_TaskSessionNotClosed ==
    [][\A r \in Requests :
          (req[r].batch_id # None /\ task_step(req[r].batch_id[1])) => db[r] = "open"
      ]_vars

(***************************************************************************)
(* Scheduling after the loop (checked under Spec)                          *)
(***************************************************************************)
\* C39: the step that schedules the analysis task of a batch is the return of
\* the call holding that batch id, taken when every file of its list has its
\* outcome, so every row the call creates is committed by then; and no row
\* is added to a batch that has a task scheduled.
C39_TaskScheduledAfterLoop ==
    /\ [][\A b \in BatchIds :
            tasks'[b] # tasks[b] =>
               \E r \in Requests :
                  /\ req[r].batch_id = Some(b)
                  /\ pc[r] = "loop" /\ pc'[r] = "done"
                  /\ Len(req[r].upload_results) = req[r].nfiles
                  /\ Cardinality(records_of(b)) <= req[r].successful_uploads
        ]_vars
    /\ [][\A b \in BatchIds :
            tasks[b] # <<>> => {s \in scans' : s.batch_id = b} \subseteq records_of(b)
        ]_vars

\* C39 witness: a call has returned with its task scheduled after committing
\* two rows, both in the batch, while the other call is still in its loop.
C39_Witness ==
    \E r \in Requests, other \in Requests :
        /\ pc[r] = "done" /\ pc[other] \in {"loop", "commit"}
        /\ tasks[req[r].batch_id[1]] # <<>>
        /\ Cardinality(records_of(req[r].batch_id[1])) = 2
        /\ req[r].successful_uploads = 2

=============================================================================
